---- MODULE Spec2Model ----
(***************************************************************************)
(* Retrieval and evidence-aggregation pipeline of BOG_CHAT.                *)
(*                                                                         *)
(*   backend/create_vector_embedding.py   clean_text,                      *)
(*                                        detect_item_and_resolution,      *)
(*                                        process_docx_by_items,           *)
(*                                        store_per_doc_embeddings         *)
(*   backend/rag_query_handler.py         TextRAGHandler                   *)
(*                                                                         *)
(* Text is a sequence of characters; a character is a one-letter string.   *)
(* Characters that have no ASCII letter are written as named atoms:        *)
(* "BULLET" is U+2022, "NBSP" is U+00A0 (white space that is not a         *)
(* control character), "\n" and "\t" are the control characters LF and     *)
(* TAB.  The regular expressions of the source are operators that scan     *)
(* the sequence from the left, as re.sub / re.search / re.findall do.      *)
(***************************************************************************)
EXTENDS Integers, Sequences, FiniteSets, TLC

VARIABLES
    \* clean_text applied once and twice (SpecClean)
    raw, once, twice, cpc,
    \* process_docx_by_items (SpecChunk): the paragraphs and table rows read
    \* so far, and the locals of the function
    paragraphs, rows, chunks, current_item_no, current_resolution,
    current_text, ppc,
    \* store_per_doc_embeddings (SpecIndex): the listing of the data folder,
    \* the locals of the function, the partitions persisted under
    \* BASE_VECTOR_STORE, and the record of what each iteration did
    data_folder, files, file_index, all_chunks, vector_store_dir, ipc, index_log,
    \* TextRAGHandler (SpecHandle, SpecSelect): the registry self.vector_stores,
    \* the arguments and locals of handle_input, its return value, and the
    \* steps the current call has taken
    vector_stores, query, top_k, store_keys, key_index, all_docs, seen,
    combined_context, response, qpc, trace

cleanVars == <<raw, once, twice, cpc>>
chunkVars == <<paragraphs, rows, chunks, current_item_no, current_resolution,
               current_text, ppc>>
indexVars == <<data_folder, files, file_index, all_chunks, vector_store_dir,
               ipc, index_log>>
localVars == <<query, top_k, store_keys, key_index, all_docs, seen,
               combined_context, response, qpc, trace>>
vars == <<cleanVars, chunkVars, indexVars, vector_stores, localVars>>

\* the variables of the other functions
notClean == <<chunkVars, indexVars, vector_stores, localVars>>
notChunk == <<cleanVars, indexVars, vector_stores, localVars>>
notIndex == <<cleanVars, chunkVars, vector_stores, localVars>>
notHandler == <<cleanVars, chunkVars, data_folder, files, file_index,
                all_chunks, ipc, index_log>>

\* Python's None, which is no text: a one-element sequence whose element is
\* not a character
None == <<"None">>

\* the variables of a function that is not running
CleanIdle ==
    /\ raw = <<>>
    /\ once = <<>>
    /\ twice = <<>>
    /\ cpc = "idle"

ChunkIdle ==
    /\ paragraphs = <<>>
    /\ rows = <<>>
    /\ chunks = <<>>
    /\ current_item_no = None
    /\ current_resolution = None
    /\ current_text = <<>>
    /\ ppc = "idle"
IndexIdle ==
    /\ data_folder = <<>>
    /\ files = <<>>
    /\ file_index = 1
    /\ all_chunks = <<>>
    /\ vector_store_dir = <<>>
    /\ ipc = "idle"
    /\ index_log = <<>>
HandlerIdle ==
    /\ vector_stores = <<>>
    /\ query = <<>>
    /\ top_k = 0
    /\ store_keys = <<>>
    /\ key_index = 1
    /\ all_docs = <<>>
    /\ seen = {}
    /\ combined_context = <<>>
    /\ response = "none"
    /\ qpc = "off"
    /\ trace = <<>>

----------------------------------------------------------------------------
(* Characters and character classes                                        *)

LowerLetters == <<"a","b","c","d","e","f","g","h","i","j","k","l","m",
                  "n","o","p","q","r","s","t","u","v","w","x","y","z">>
UpperLetters == <<"A","B","C","D","E","F","G","H","I","J","K","L","M",
                  "N","O","P","Q","R","S","T","U","V","W","X","Y","Z">>

Range(f) == {f[i] : i \in DOMAIN f}

LowerSet == Range(LowerLetters)
UpperSet == Range(UpperLetters)
DigitSet == {"0","1","2","3","4","5","6","7","8","9"}

\* str.lower() on one character (re.IGNORECASE compares case-folded letters)
Lower(c) ==
    IF c \in UpperSet
    THEN LowerLetters[CHOOSE i \in DOMAIN UpperLetters : UpperLetters[i] = c]
    ELSE c

\* \d
IsDigit(c) == c \in DigitSet
\* \w
IsWord(c) == c \in LowerSet \/ c \in UpperSet \/ c \in DigitSet \/ c = "_"
\* [\x00-\x1F\x7F-\x9F]
IsControl(c) == c \in {"\n", "\t"}
\* \s (Unicode white space: the control characters LF, TAB and the others)
IsSpace(c) == c \in {" ", "\n", "\t", "NBSP"}
\* [BULLET, SMALL SQUARE, REPLACEMENT CHARACTER]
IsBullet(c) == c \in {"BULLET", "SQUARE", "REPLACEMENT"}

\* the concatenation of a sequence of texts
RECURSIVE Concat(_)
Concat(ss) == IF ss = <<>> THEN <<>> ELSE Head(ss) \o Concat(Tail(ss))

\* the sequences over S of length at most n
SeqsUpTo(S, n) == UNION { [1..k -> S] : k \in 0..n }

\* s[i..j] (empty when j < i)
Slice(s, i, j) == SubSeq(s, i, j)

\* first index >= i whose character is not white space (Len(s)+1 if none)
RECURSIVE SkipSpace(_, _)
SkipSpace(s, i) ==
    IF i <= Len(s) /\ IsSpace(s[i]) THEN SkipSpace(s, i + 1) ELSE i

\* first index >= i whose character is not a digit
RECURSIVE SkipDigits(_, _)
SkipDigits(s, i) ==
    IF i <= Len(s) /\ IsDigit(s[i]) THEN SkipDigits(s, i + 1) ELSE i

\* first index >= i whose character is not a bullet glyph
RECURSIVE SkipBullets(_, _)
SkipBullets(s, i) ==
    IF i <= Len(s) /\ IsBullet(s[i]) THEN SkipBullets(s, i + 1) ELSE i

\* first index >= i whose character is not an underscore
RECURSIVE SkipUnderscores(_, _)
SkipUnderscores(s, i) ==
    IF i <= Len(s) /\ s[i] = "_" THEN SkipUnderscores(s, i + 1) ELSE i

\* the literal lit (given in lower case) stands at s[i..], letters compared
\* without case
MatchesAtNoCase(s, i, lit) ==
    /\ i >= 1
    /\ i + Len(lit) - 1 <= Len(s)
    /\ \A k \in 1..Len(lit) : Lower(s[i + k - 1]) = lit[k]

\* \b between s[i-1] and s[i]
WordBoundary(s, i) ==
    LET before == i > 1 /\ i - 1 <= Len(s) /\ IsWord(s[i - 1])
        after  == i >= 1 /\ i <= Len(s) /\ IsWord(s[i])
    IN  before # after

\* str.strip()
RECURSIVE LStrip(_)
LStrip(s) == IF s # <<>> /\ IsSpace(Head(s)) THEN LStrip(Tail(s)) ELSE s

RECURSIVE RStrip(_)
RStrip(s) ==
    IF s # <<>> /\ IsSpace(s[Len(s)]) THEN RStrip(SubSeq(s, 1, Len(s) - 1)) ELSE s

Strip(s) == RStrip(LStrip(s))

----------------------------------------------------------------------------
(* re.sub, and clean_text: create_vector_embedding.py lines 18-27          *)

\* the least element of a set of indices, none when the set is empty
FirstIn(S, none) ==
    IF S = {} THEN none ELSE CHOOSE x \in S : \A y \in S : x <= y

\* re.sub over s[i..] up to index stop-1: ends[i] is the end (exclusive) of
\* the pattern's match that starts at i, 0 when none starts there.  Matches
\* are taken from the left and the scan resumes where a match ended.
\* out is the text produced, next the index the scan has reached.
RECURSIVE SubRun(_, _, _, _, _)
SubRun(s, ends, repl, i, stop) ==
    IF i > Len(s) \/ i >= stop THEN [out |-> <<>>, next |-> i]
    ELSE IF ends[i] > 0
    THEN LET r == SubRun(s, ends, repl, ends[i], stop)
         IN  [out |-> repl \o r.out, next |-> r.next]
    ELSE LET r == SubRun(s, ends, repl, i + 1, stop)
         IN  [out |-> <<s[i]>> \o r.out, next |-> r.next]

\* the scan is cut into runs of sixteen indices to keep the recursion shallow
RECURSIVE SubFrom(_, _, _, _)
SubFrom(s, ends, repl, i) ==
    IF i > Len(s) THEN <<>>
    ELSE LET r == SubRun(s, ends, repl, i, i + 16)
         IN  r.out \o SubFrom(s, ends, repl, r.next)

\* re.sub(pattern, repl, s): a text in which the pattern matches nowhere is
\* returned as it is
re_sub(s, ends, repl) ==
    IF \A i \in DOMAIN s : ends[i] = 0 THEN s ELSE SubFrom(s, ends, repl, 1)

\* re.sub(r'[\x00-\x1F\x7F-\x9F]', '', text)
StripControl(s) == SelectSeq(s, LAMBDA c : ~IsControl(c))

\* end (exclusive) of a match of (?<=\w)-\s+(?=\w) at i, 0 if none
HyphenMatchEnd(s, i) ==
    LET j == SkipSpace(s, i + 1)
    IN  IF /\ s[i] = "-"
           /\ i > 1 /\ IsWord(s[i - 1])
           /\ j > i + 1
           /\ j <= Len(s) /\ IsWord(s[j])
        THEN j ELSE 0

\* re.sub(r'(?<=\w)-\s+(?=\w)', '', text)
JoinHyphen(s) == re_sub(s, [i \in DOMAIN s |-> HyphenMatchEnd(s, i)], <<>>)

\* re.sub(r'\s+', ' ', text)
CollapseSpace(s) ==
    re_sub(s, [i \in DOMAIN s |-> IF IsSpace(s[i]) THEN SkipSpace(s, i) ELSE 0],
           <<" ">>)

\* re.sub(r'[bullet glyphs]+', ' ', text)
ReplaceBullets(s) ==
    re_sub(s, [i \in DOMAIN s |-> IF IsBullet(s[i]) THEN SkipBullets(s, i) ELSE 0],
           <<" ">>)

\* end (exclusive) of a match of (?i)\b(?:page|pase)\s*\d+\b at i, 0 if none
PageMatchEnd(s, i) ==
    LET j == SkipSpace(s, i + 4)
        k == SkipDigits(s, j)
    IN  IF /\ WordBoundary(s, i)
           /\ \/ MatchesAtNoCase(s, i, <<"p","a","g","e">>)
              \/ MatchesAtNoCase(s, i, <<"p","a","s","e">>)
           /\ k > j
           /\ WordBoundary(s, k)
        THEN k ELSE 0

\* re.sub(r'(?i)\b(?:page|pase)\s*\d+\b', '', text)
RemovePage(s) == re_sub(s, [i \in DOMAIN s |-> PageMatchEnd(s, i)], <<>>)

\* re.sub(r'_{2,}', '', text)
RemoveBlanks(s) ==
    re_sub(s, [i \in DOMAIN s |->
                  IF SkipUnderscores(s, i) >= i + 2
                  THEN SkipUnderscores(s, i) ELSE 0],
           <<>>)

clean_text(text) ==
    IF text = <<>> THEN <<>>
    ELSE LET t1 == StripControl(text)
             t2 == JoinHyphen(t1)
             t3 == CollapseSpace(t2)
             t4 == ReplaceBullets(t3)
             t5 == RemovePage(t4)
             t6 == RemoveBlanks(t5)
         IN  Strip(t6)

----------------------------------------------------------------------------
(* detect_item_and_resolution: create_vector_embedding.py lines 30-36      *)

\* bool(x) of an optional text: None and "" are false
Truthy(x) == x # None /\ x # <<>>

ItemLiteral == <<"i","t","e","m"," ","n","o",".">>

ResolutionLiteral ==
    <<"r","e","s","o","l","u","t","i","o","n"," ","w","i","t","h"," ",
      "r","e","s","p","e","c","t"," ","t","o">>

\* end (exclusive) of a match of Item No\.\s*\d+ at i, 0 if none
ItemMatchEnd(s, i) ==
    LET j == SkipSpace(s, i + Len(ItemLiteral))
        k == SkipDigits(s, j)
    IN  IF MatchesAtNoCase(s, i, ItemLiteral) /\ k > j THEN k ELSE 0

\* re.search(r'Item No\.\s*\d+', text, re.IGNORECASE).group(0), or None
SearchItem(s) ==
    LET i == FirstIn({j \in DOMAIN s : ItemMatchEnd(s, j) > 0}, 0)
    IN  IF i = 0 THEN None ELSE Slice(s, i, ItemMatchEnd(s, i) - 1)

\* the largest g in lo..hi at which (.+) can start (a character that is not
\* a line break), 0 if none: \s* is greedy and gives back one character
\* at a time
RECURSIVE GroupStart(_, _, _)
GroupStart(s, lo, hi) ==
    IF hi < lo THEN 0
    ELSE IF hi <= Len(s) /\ s[hi] # "\n" THEN hi
    ELSE GroupStart(s, lo, hi - 1)

\* first index >= i that holds a line break (Len(s)+1 if none): (.+) is
\* greedy and . matches no line break
LineEnd(s, i) == FirstIn({j \in i..Len(s) : s[j] = "\n"}, Len(s) + 1)

\* start of group 1 of a match of
\* Resolution with respect to[:\-]?\s*(.+) at i, 0 if none
ResolutionGroupStart(s, i) ==
    LET e == i + Len(ResolutionLiteral)
        withMark == IF e <= Len(s) /\ s[e] \in {":", "-"}
                    THEN GroupStart(s, e + 1, SkipSpace(s, e + 1))
                    ELSE 0
    IN  IF ~MatchesAtNoCase(s, i, ResolutionLiteral) THEN 0
        ELSE IF withMark > 0 THEN withMark
        ELSE GroupStart(s, e, SkipSpace(s, e))

\* re.search(r'Resolution with respect to[:\-]?\s*(.+)', text,
\*           re.IGNORECASE).group(1).strip(), or None
SearchResolution(s) ==
    LET i == FirstIn({j \in DOMAIN s : ResolutionGroupStart(s, j) > 0}, 0)
        g == ResolutionGroupStart(s, i)
    IN  IF i = 0 THEN None ELSE Strip(Slice(s, g, LineEnd(s, g) - 1))

detect_item_and_resolution(text) ==
    [item |-> SearchItem(text), resolution |-> SearchResolution(text)]

----------------------------------------------------------------------------
(* process_docx_by_items: create_vector_embedding.py lines 39-88           *)

MIN_CHUNK_LENGTH == 100

\* os.path.basename(docx_path) of the document being processed
file_name == "minutes.docx"

\* sep.join(lines)
RECURSIVE Join(_, _)
Join(lines, sep) ==
    IF lines = <<>> THEN <<>>
    ELSE IF Len(lines) = 1 THEN Head(lines)
    ELSE Head(lines) \o sep \o Join(Tail(lines), sep)

\* store_chunk() without the test of line 52: every buffered block is emitted
store_chunk_any_length(chunks0, text0, item_no, resolution) ==
    IF text0 = <<>> THEN [chunks |-> chunks0, current_text |-> text0]
    ELSE [chunks |-> Append(chunks0,
                            [page_content |-> Strip(Join(text0, <<"\n">>)),
                             source |-> file_name,
                             item_no |-> item_no,
                             resolution |-> resolution]),
          current_text |-> <<>>]

\* store_chunk(), lines 48-59: the chunks and the buffer it leaves
store_chunk(chunks0, text0, item_no, resolution) ==
    IF text0 = <<>> THEN [chunks |-> chunks0, current_text |-> text0]
    ELSE LET text_block == Strip(Join(text0, <<"\n">>))
         IN  [chunks |->
                 IF Len(text_block) >= MIN_CHUNK_LENGTH
                 THEN Append(chunks0, [page_content |-> text_block,
                                       source |-> file_name,
                                       item_no |-> item_no,
                                       resolution |-> resolution])
                 ELSE chunks0,
              current_text |-> <<>>]

\* " | ".join(clean_text(cell.text) for cell in row.cells
\*            if clean_text(cell.text)), line 81
RowText(cells) ==
    LET cleaned == [i \in DOMAIN cells |-> clean_text(cells[i])]
    IN  Join(SelectSeq(cleaned, LAMBDA c : c # <<>>), <<" ", "|", " ">>)


\* the paragraph loop with lines 70 and 71-72 exchanged: the flush sees the
\* identifier and label of the new marker
ParaStep_tags_new(text) ==
    LET cleaned == clean_text(text)
        det == detect_item_and_resolution(cleaned)
        new_resolution == IF Truthy(det.resolution) THEN det.resolution
                          ELSE current_resolution
        flushed == store_chunk(chunks, current_text, det.item, new_resolution)
    IN  /\ paragraphs' = Append(paragraphs, text)
        /\ IF cleaned = <<>>
           THEN UNCHANGED <<chunks, current_item_no, current_resolution,
                            current_text>>
           ELSE IF Truthy(det.item)
           THEN /\ chunks' = flushed.chunks
                /\ current_item_no' = det.item
                /\ current_resolution' = new_resolution
                /\ current_text' = Append(flushed.current_text, cleaned)
           ELSE /\ chunks' = chunks
                /\ current_item_no' = current_item_no
                /\ current_resolution' = new_resolution
                /\ current_text' = Append(current_text, cleaned)

\* one iteration of the paragraph loop, lines 62-76, on the paragraph text
ParaStep(text) ==
    LET cleaned == clean_text(text)
        det == detect_item_and_resolution(cleaned)
        flushed == store_chunk(chunks, current_text, current_item_no,
                               current_resolution)
    IN  /\ paragraphs' = Append(paragraphs, text)
        /\ IF cleaned = <<>>
           THEN UNCHANGED <<chunks, current_item_no, current_resolution,
                            current_text>>
           ELSE IF Truthy(det.item)
           THEN /\ chunks' = flushed.chunks
                /\ current_item_no' = det.item
                /\ current_resolution' =
                       IF Truthy(det.resolution) THEN det.resolution
                       ELSE current_resolution
                /\ current_text' = Append(flushed.current_text, cleaned)
           ELSE /\ chunks' = chunks
                /\ current_item_no' = current_item_no
                /\ current_resolution' =
                       IF Truthy(det.resolution) THEN det.resolution
                       ELSE current_resolution
                /\ current_text' = Append(current_text, cleaned)

\* the table loop with a flush before each row: a row opens a chunk
RowStep_flushes(cells) ==
    LET row_text == RowText(cells)
        flushed == store_chunk(chunks, current_text, current_item_no,
                               current_resolution)
    IN  /\ rows' = Append(rows, cells)
        /\ chunks' = flushed.chunks
        /\ current_text' = IF row_text # <<>>
                           THEN Append(flushed.current_text, row_text)
                           ELSE flushed.current_text
        /\ UNCHANGED <<current_item_no, current_resolution>>

\* one iteration of the table loops, lines 79-83, on the row's cell texts
RowStep(cells) ==
    LET row_text == RowText(cells)
    IN  /\ rows' = Append(rows, cells)
        /\ current_text' = IF row_text # <<>>
                           THEN Append(current_text, row_text)
                           ELSE current_text
        /\ UNCHANGED <<chunks, current_item_no, current_resolution>>

\* the final flush and the return, lines 86-88
FinalFlush ==
    LET flushed == store_chunk(chunks, current_text, current_item_no,
                               current_resolution)
    IN  /\ chunks' = flushed.chunks
        /\ current_text' = flushed.current_text
        /\ UNCHANGED <<paragraphs, rows, current_item_no, current_resolution>>

----------------------------------------------------------------------------
(* SpecChunk: process_docx_by_items on documents of at most MaxParas       *)
(* paragraphs and MaxRows table rows                                       *)

MaxParas == 3
MaxRows == 1

Rep(c, n) == [i \in 1..n |-> c]

\* 98 characters: alone below MIN_CHUNK_LENGTH, with one more one-letter
\* line exactly MIN_CHUNK_LENGTH
Filler == Rep("x", 98)

ItemNo1 == <<"I","t","e","m"," ","N","o","."," ","1">>
ItemNo2 == <<"i","t","e","m"," ","n","o",".","2">>
ResolutionHead ==
    <<"R","e","s","o","l","u","t","i","o","n"," ","w","i","t","h"," ",
      "r","e","s","p","e","c","t"," ","t","o">>

\* the paragraph texts documents are made of
ParagraphTexts ==
    { Filler,
      <<"y">>,
      ItemNo2 \o <<" ">> \o Filler,
      ResolutionHead \o <<":", " ", "r">>,
      ItemNo1 \o <<" ">> \o ResolutionHead \o <<" ", "-", "q">>,
      <<" ", "BULLET", "\t">> }

\* the table rows (a row is the sequence of its cells' texts)
TableRows ==
    { << <<"c">>, <<>>, <<"d", " ">> >>,
      << <<" ">>, <<>> >>,
      << ItemNo1, Filler >> }

InitChunk ==
    /\ paragraphs = <<>>
    /\ rows = <<>>
    /\ chunks = <<>>
    /\ current_item_no = None
    /\ current_resolution = None
    /\ current_text = <<>>
    /\ ppc = "paras"
    /\ CleanIdle
    /\ IndexIdle
    /\ HandlerIdle

NextPara ==
    /\ ppc = "paras"
    /\ Len(paragraphs) < MaxParas
    /\ \E text \in ParagraphTexts : ParaStep(text)
    /\ UNCHANGED <<ppc, rows, notChunk>>

NextRow ==
    /\ ppc \in {"paras", "tables"}
    /\ Len(rows) < MaxRows
    /\ \E cells \in TableRows : RowStep(cells)
    /\ ppc' = "tables"
    /\ UNCHANGED <<paragraphs, notChunk>>

Return ==
    /\ ppc \in {"paras", "tables"}
    /\ FinalFlush
    /\ ppc' = "done"
    /\ UNCHANGED notChunk

NextChunk == NextPara \/ NextRow \/ Return

SpecChunk == InitChunk /\ [][NextChunk]_vars

----------------------------------------------------------------------------
(* Properties of process_docx_by_items                                     *)

\* the normalized paragraphs read so far, the empty ones skipped (lines 63-65)
CleanedParagraphs ==
    SelectSeq([i \in DOMAIN paragraphs |-> clean_text(paragraphs[i])],
              LAMBDA t : t # <<>>)

\* the texts of the table rows read so far, the empty ones skipped
RowTexts ==
    SelectSeq([i \in DOMAIN rows |-> RowText(rows[i])], LAMBDA t : t # <<>>)

\* some paragraph read so far carries an item marker
HasItemMarker ==
    LET cleaned == CleanedParagraphs
    IN  \E i \in DOMAIN cleaned : Truthy(SearchItem(cleaned[i]))

\* everything the document's paragraphs and rows put into a buffer
AccumulatedText == Strip(Join(CleanedParagraphs \o RowTexts, <<"\n">>))

\* the label of the last resolution heading among the paragraphs, or None
LastResolution ==
    LET cleaned == CleanedParagraphs
        found == [i \in DOMAIN cleaned |-> SearchResolution(cleaned[i])]
        with == {i \in DOMAIN cleaned : Truthy(found[i])}
    IN  IF with = {} THEN None
        ELSE found[CHOOSE i \in with : \A j \in with : j <= i]

\* the first line of a chunk's text
FirstLine(t) == Slice(t, 1, LineEnd(t, 1) - 1)

\* t ends with the lines ls, each on a line of its own
EndsWithLines(t, ls) ==
    LET tail == Join(ls, <<"\n">>)
    IN  /\ Len(tail) <= Len(t)
        /\ Slice(t, Len(t) - Len(tail) + 1, Len(t)) = tail
        /\ Len(tail) < Len(t) /\ ls # <<>> => t[Len(t) - Len(tail)] = "\n"

\* C8 as stated: a document with no item marker yields at most one chunk,
\* none when its accumulated text is shorter than MIN_CHUNK_LENGTH, and the
\* chunk carries neither an item identifier nor a resolution label
C8_NoMarkerNoMetadata ==
    ppc = "done" /\ ~HasItemMarker =>
        /\ Len(chunks) <= 1
        /\ Len(AccumulatedText) < MIN_CHUNK_LENGTH => chunks = <<>>
        /\ \A i \in DOMAIN chunks :
              /\ chunks[i].item_no = None
              /\ chunks[i].resolution = None

\* C8 amended: a document with no item marker yields at most one chunk, none
\* when its accumulated text is shorter than MIN_CHUNK_LENGTH; the chunk
\* carries no item identifier, and its resolution label is that of the last
\* resolution heading among the paragraphs (none when there is no heading)
C8_NoMarkerOneChunk ==
    ppc = "done" /\ ~HasItemMarker =>
        /\ Len(chunks) <= 1
        /\ Len(AccumulatedText) < MIN_CHUNK_LENGTH => chunks = <<>>
        /\ \A i \in DOMAIN chunks :
              /\ chunks[i].item_no = None
              /\ chunks[i].resolution = LastResolution

\* a document without item marker whose single chunk has a resolution label
C8_Witness ==
    /\ ppc = "done"
    /\ ~HasItemMarker
    /\ Len(chunks) = 1
    /\ chunks[1].item_no = None
    /\ chunks[1].resolution = <<"r">>

\* C9: table rows never start a chunk of their own: a row step changes no
\* chunk and appends the row's text to the open buffer, so the buffer always
\* ends with the rows read so far; only the final flush emits them, as the
\* end of the trailing chunk
C9_RowsJoinTrailingChunk ==
    /\ [](ppc = "tables" =>
             /\ Len(RowTexts) <= Len(current_text)
             /\ SubSeq(current_text, Len(current_text) - Len(RowTexts) + 1,
                       Len(current_text)) = RowTexts)
    /\ [][ /\ ppc' = "tables" => chunks' = chunks
           /\ ppc' = "done" =>
                 LET block == Strip(Join(current_text, <<"\n">>))
                 IN  IF Len(block) >= MIN_CHUNK_LENGTH
                     THEN /\ Len(chunks') = Len(chunks) + 1
                          /\ SubSeq(chunks', 1, Len(chunks)) = chunks
                          /\ chunks'[Len(chunks')].page_content = block
                          /\ EndsWithLines(block, RowTexts)
                     ELSE chunks' = chunks ]_vars

\* a document whose table row, too short for a chunk of its own, was emitted
\* by the final flush as the end of the chunk opened by its paragraphs
C9_Witness ==
    /\ ppc = "done"
    /\ CleanedParagraphs # <<>>
    /\ RowTexts # <<>>
    /\ chunks # <<>>
    /\ chunks[Len(chunks)].page_content = AccumulatedText
    /\ Len(RowTexts[1]) < MIN_CHUNK_LENGTH

\* C10: a flush triggered by an item marker tags the chunk with the item
\* identifier and resolution label in force before the marker, so a chunk's
\* item identifier is the one detected in the first unit of its own text
\* (none before the first item marker, and none in a document without
\* paragraphs), also after a block was discarded as too short
C10_FlushTagsPrevious ==
    /\ [](\A i \in DOMAIN chunks :
             chunks[i].item_no =
                 IF CleanedParagraphs # <<>>
                 THEN SearchItem(FirstLine(chunks[i].page_content))
                 ELSE None)
    /\ [][ ppc' = "paras" /\ Len(chunks') = Len(chunks) + 1 =>
              /\ chunks'[Len(chunks')].item_no = current_item_no
              /\ chunks'[Len(chunks')].resolution = current_resolution ]_vars

\* the block of the first item marker was discarded as too short and the
\* chunk of the second one carries the second identifier
C10_Witness ==
    /\ ppc = "done"
    /\ Len(paragraphs) = 2
    /\ SearchItem(clean_text(paragraphs[1])) = ItemNo1
    /\ Len(chunks) = 1
    /\ chunks[1].item_no = ItemNo2

----------------------------------------------------------------------------
(* store_per_doc_embeddings: create_vector_embedding.py lines 91-132       *)

COMBINED_INDEX_NAME == <<"d","b","_","f","a","i","s","s">>

DocxExtension == <<".","d","o","c","x">>

\* f.lower().endswith('.docx'), line 93
IsDocx(f) ==
    /\ Len(f) >= Len(DocxExtension)
    /\ MatchesAtNoCase(f, Len(f) - Len(DocxExtension) + 1, DocxExtension)

\* os.path.splitext(file)[0], line 117: the name up to its last dot, the
\* whole name when it has no dot or only leading ones
SplitExtRoot(f) ==
    LET dots == {i \in DOMAIN f : f[i] = "." /\ \E j \in 1..(i - 1) : f[j] # "."}
    IN  IF dots = {} THEN f
        ELSE Slice(f, 1, (CHOOSE i \in dots : \A j \in dots : j <= i) - 1)

\* the partition directory written by save_local, lines 117-119 and 127-129
SaveLocal(dir, name, documents) ==
    [n \in DOMAIN dir \cup {name} |-> IF n = name THEN documents ELSE dir[n]]

\* the texts of the chunks process_docx_by_items can return for a file
DocumentChunkTexts == { <<>>, << <<"p">> >>, << <<"p">>, <<"q">> >> }

\* the chunks of a file: every chunk carries its file name as source (line 54)
ChunksOf(file, texts) ==
    [i \in DOMAIN texts |-> [page_content |-> texts[i], source |-> file]]

\* lines 92-99: the listing filtered, the early return when no file is left
ListFiles ==
    /\ ipc = "start"
    /\ files' = SelectSeq(data_folder, IsDocx)
    /\ ipc' = IF files' = <<>> THEN "done" ELSE "loop"
    /\ UNCHANGED <<data_folder, file_index, all_chunks, vector_store_dir,
                   index_log, notIndex>>

\* lines 105-107: the file yields no chunk
SkipEmptyDoc(file) ==
    /\ index_log' = Append(index_log,
                           [file |-> file, chunks |-> <<>>, outcome |-> "no chunks"])
    /\ UNCHANGED <<all_chunks, vector_store_dir, ipc>>

\* lines 109-112 without the try of line 111: the exception ends the run
EmbedFails_uncaught(file, doc_chunks) ==
    /\ all_chunks' = all_chunks \o doc_chunks
    /\ index_log' = Append(index_log,
                           [file |-> file, chunks |-> doc_chunks,
                            outcome |-> "embed failed"])
    /\ ipc' = "raised"
    /\ UNCHANGED vector_store_dir

\* lines 109-115: FAISS.from_documents raises, the exception is caught
EmbedFails(file, doc_chunks) ==
    /\ all_chunks' = all_chunks \o doc_chunks
    /\ index_log' = Append(index_log,
                           [file |-> file, chunks |-> doc_chunks,
                            outcome |-> "embed failed"])
    /\ UNCHANGED <<vector_store_dir, ipc>>

\* lines 109-120: the index is built and saved under the file's base name
StoreDoc(file, doc_chunks) ==
    /\ all_chunks' = all_chunks \o doc_chunks
    /\ vector_store_dir' = SaveLocal(vector_store_dir, SplitExtRoot(file), doc_chunks)
    /\ index_log' = Append(index_log,
                           [file |-> file, chunks |-> doc_chunks,
                            outcome |-> "stored"])
    /\ UNCHANGED ipc

\* lines 117-119 are outside the try: an exception of makedirs or save_local
\* ends the run
SaveRaises(file, doc_chunks) ==
    /\ all_chunks' = all_chunks \o doc_chunks
    /\ index_log' = Append(index_log,
                           [file |-> file, chunks |-> doc_chunks,
                            outcome |-> "save raised"])
    /\ ipc' = "raised"
    /\ UNCHANGED vector_store_dir

\* one iteration of the loop of line 101
ProcessDoc ==
    /\ ipc = "loop"
    /\ file_index <= Len(files)
    /\ LET file == files[file_index]
       IN  \E texts \in DocumentChunkTexts :
              LET doc_chunks == ChunksOf(file, texts)
              IN  IF doc_chunks = <<>> THEN SkipEmptyDoc(file)
                  ELSE \/ EmbedFails(file, doc_chunks)
                       \/ StoreDoc(file, doc_chunks)
                       \/ SaveRaises(file, doc_chunks)
    /\ file_index' = file_index + 1
    /\ UNCHANGED <<data_folder, files, notIndex>>

\* lines 123-132 when all_chunks is empty: nothing to combine
NoCombined ==
    /\ ipc = "loop"
    /\ file_index > Len(files)
    /\ all_chunks = <<>>
    /\ ipc' = "done"
    /\ UNCHANGED <<data_folder, files, file_index, all_chunks, vector_store_dir,
                   index_log, notIndex>>

\* lines 123-130: the combined index is built and saved
StoreCombined ==
    /\ ipc = "loop"
    /\ file_index > Len(files)
    /\ all_chunks # <<>>
    /\ vector_store_dir' = SaveLocal(vector_store_dir, COMBINED_INDEX_NAME, all_chunks)
    /\ index_log' = Append(index_log,
                           [file |-> COMBINED_INDEX_NAME, chunks |-> all_chunks,
                            outcome |-> "combined stored"])
    /\ ipc' = "done"
    /\ UNCHANGED <<data_folder, files, file_index, all_chunks, notIndex>>

\* lines 123-132: building the combined index raises, the exception is caught
CombinedFails ==
    /\ ipc = "loop"
    /\ file_index > Len(files)
    /\ all_chunks # <<>>
    /\ index_log' = Append(index_log,
                           [file |-> COMBINED_INDEX_NAME, chunks |-> all_chunks,
                            outcome |-> "combined failed"])
    /\ ipc' = "done"
    /\ UNCHANGED <<data_folder, files, file_index, all_chunks, vector_store_dir,
                   notIndex>>

----------------------------------------------------------------------------
(* SpecIndex: one run of store_per_doc_embeddings over a data folder of at *)
(* most MaxFiles files, the vector store empty before the run              *)

MaxFiles == 3

FileNames ==
    { <<"a">> \o DocxExtension,
      <<"b",".","D","O","C","X">>,
      <<"c",".","1">> \o DocxExtension,
      <<"n",".","t","x","t">> }

\* os.listdir: the files in any order
Listings ==
    { l \in SeqsUpTo(FileNames, MaxFiles) :
         \A i, j \in DOMAIN l : i # j => l[i] # l[j] }

InitIndex ==
    /\ data_folder \in Listings
    /\ files = <<>>
    /\ file_index = 1
    /\ all_chunks = <<>>
    /\ vector_store_dir = <<>>
    /\ ipc = "start"
    /\ index_log = <<>>
    /\ CleanIdle
    /\ ChunkIdle
    /\ HandlerIdle

NextIndex == ListFiles \/ ProcessDoc \/ NoCombined \/ StoreCombined \/ CombinedFails

SpecIndex == InitIndex /\ [][NextIndex]_vars

\* the per-document partitions: every persisted partition but the combined one
DocPartitions == DOMAIN vector_store_dir \ {COMBINED_INDEX_NAME}

\* C5: after a run, every chunk of the persisted combined partition exists,
\* identically, in exactly one persisted per-document partition
C5_CombinedInOneDocPartition ==
    ipc = "done" /\ COMBINED_INDEX_NAME \in DOMAIN vector_store_dir =>
        \A k \in DOMAIN vector_store_dir[COMBINED_INDEX_NAME] :
            Cardinality({n \in DocPartitions :
                            \E j \in DOMAIN vector_store_dir[n] :
                                vector_store_dir[n][j] =
                                    vector_store_dir[COMBINED_INDEX_NAME][k]}) = 1

\* what the last iteration did
LastOutcome(log) == IF log = <<>> THEN "none" ELSE log[Len(log)].outcome

----------------------------------------------------------------------------
(* TextRAGHandler._extract_bog_folders_from_query:                         *)
(* rag_query_handler.py lines 62-103                                       *)

\* re.findall with one group: ends[i] is the end (exclusive) of the match
\* that starts at i (0 when none), groups[i] its group; matches are taken
\* from the left and the scan resumes where a match ended
RECURSIVE FindAllFrom(_, _, _, _)
FindAllFrom(s, ends, groups, i) ==
    IF i > Len(s) THEN <<>>
    ELSE IF ends[i] > 0 THEN <<groups[i]>> \o FindAllFrom(s, ends, groups, ends[i])
    ELSE FindAllFrom(s, ends, groups, i + 1)

\* end (exclusive) of a match of \bBoG\s*(\d{1,3})\b (re.IGNORECASE) at i,
\* 0 if none: a run of more than three digits leaves no word boundary after
\* any one, two or three of them
BogMatchEnd(s, i) ==
    LET j == SkipSpace(s, i + 3)
        k == SkipDigits(s, j)
    IN  IF /\ WordBoundary(s, i)
           /\ MatchesAtNoCase(s, i, <<"b","o","g">>)
           /\ k > j /\ k - j <= 3
           /\ WordBoundary(s, k)
        THEN k ELSE 0

\* re.findall(r"\bBoG\s*(\d{1,3})\b", query, flags=re.IGNORECASE), line 66
BogMentions(s) ==
    FindAllFrom(s, [i \in DOMAIN s |-> BogMatchEnd(s, i)],
                [i \in DOMAIN s |->
                    Slice(s, SkipSpace(s, i + 3), BogMatchEnd(s, i) - 1)], 1)

\* a match of \b(20\d{2})\b starts at i
YearMatchesAt(s, i) ==
    /\ i + 3 <= Len(s)
    /\ WordBoundary(s, i)
    /\ s[i] = "2" /\ s[i + 1] = "0" /\ IsDigit(s[i + 2]) /\ IsDigit(s[i + 3])
    /\ WordBoundary(s, i + 4)

\* re.findall(r"\b(20\d{2})\b", query), line 67
YearMentions(s) ==
    FindAllFrom(s, [i \in DOMAIN s |-> IF YearMatchesAt(s, i) THEN i + 4 ELSE 0],
                [i \in DOMAIN s |-> Slice(s, i, i + 3)], 1)

\* re.search(r'(\d{1,3})', folder).group(1), line 76: the first digit of the
\* name and up to two digits that follow it; None when it has no digit
FolderBog(folder) ==
    LET i == FirstIn({j \in DOMAIN folder : IsDigit(folder[j])}, 0)
        k == SkipDigits(folder, i)
    IN  IF i = 0 THEN None
        ELSE Slice(folder, i, (IF k - i > 3 THEN i + 3 ELSE k) - 1)

\* re.search(r'(20\d{2})', folder).group(1), line 77, or None
FolderYear(folder) ==
    LET i == FirstIn({j \in DOMAIN folder :
                         /\ j + 3 <= Len(folder)
                         /\ folder[j] = "2" /\ folder[j + 1] = "0"
                         /\ IsDigit(folder[j + 2]) /\ IsDigit(folder[j + 3])}, 0)
    IN  IF i = 0 THEN None ELSE Slice(folder, i, i + 3)

\* the dict built by setdefault(key, []).append(folder), lines 75-85, from
\* the folders and the key found in each (None when the search found none):
\* each key maps to the folders that have it, in iteration order
FolderMap(folder_names, keys) ==
    [k \in Range(keys) \ {None} |->
        LET with == SelectSeq([i \in DOMAIN folder_names |-> i],
                              LAMBDA i : keys[i] = k)
        IN  [j \in DOMAIN with |-> folder_names[with[j]]]]

\* the loops of lines 87-97 with detected = set(map[mention]) in place of
\* detected.update: only the last matching mention counts
RECURSIVE UpdateAll_overwrites(_, _, _)
UpdateAll_overwrites(detected, mentions, folder_map) ==
    IF mentions = <<>> THEN detected
    ELSE UpdateAll_overwrites(
             IF Head(mentions) \in DOMAIN folder_map
             THEN Range(folder_map[Head(mentions)])
             ELSE detected,
             Tail(mentions), folder_map)

\* one loop of lines 87-97: detected.update(map[mention]) for each mention
\* found in the map (the others only print a warning)
RECURSIVE UpdateAll(_, _, _)
UpdateAll(detected, mentions, folder_map) ==
    IF mentions = <<>> THEN detected
    ELSE UpdateAll(
             IF Head(mentions) \in DOMAIN folder_map
             THEN detected \cup Range(folder_map[Head(mentions)])
             ELSE detected,
             Tail(mentions), folder_map)

\* the messages of the ValueErrors of lines 70 and 100
NoIdentifierMessage == "No BoG number or year found in the query."
NoMatchingMessage == "No matching folders detected in the query."

\* line 69 with "or" for "and"
NoIdentifier_either(bog_mentions, year_mentions) ==
    bog_mentions = <<>> \/ year_mentions = <<>>

\* the test of line 69
NoIdentifier(bog_mentions, year_mentions) ==
    bog_mentions = <<>> /\ year_mentions = <<>>

\* the method: raised is the message of the ValueError or "none", detected
\* the set the returned list is made of
extract_bog_folders_from_query(q, folder_names) ==
    LET bog_mentions == BogMentions(q)
        year_mentions == YearMentions(q)
        folder_map_by_bog ==
            FolderMap(folder_names,
                      [i \in DOMAIN folder_names |-> FolderBog(folder_names[i])])
        folder_map_by_year ==
            FolderMap(folder_names,
                      [i \in DOMAIN folder_names |-> FolderYear(folder_names[i])])
        detected == UpdateAll(UpdateAll({}, bog_mentions, folder_map_by_bog),
                              year_mentions, folder_map_by_year)
    IN  IF NoIdentifier(bog_mentions, year_mentions)
        THEN [raised |-> NoIdentifierMessage, detected |-> {}]
        ELSE IF detected = {}
        THEN [raised |-> NoMatchingMessage, detected |-> {}]
        ELSE [raised |-> "none", detected |-> detected]

\* list(detected), line 103: the elements of the set in some order
ListsOf(S) ==
    { l \in [1..Cardinality(S) -> S] : \A i, j \in DOMAIN l : i # j => l[i] # l[j] }

\* list(self.vector_stores.keys()), line 63
Keys(stores) == [i \in DOMAIN stores |-> stores[i].key]

\* self.vector_stores[key]
Lookup(stores, key) == stores[CHOOSE i \in DOMAIN stores : stores[i].key = key].db

----------------------------------------------------------------------------
(* Partition names and queries                                             *)

BoG54_2021 == <<"B","o","G","5","4","_","2","0","2","1">>
BoG60_2022 == <<"B","o","G","6","0","_","2","0","2","2">>

\* "BoG 54", "BoG 54 2022", "BoG 99", "bog60 2021" and "hello"
QueryBoG54 == <<"B","o","G"," ","5","4">>
QueryBoG54And2022 == QueryBoG54 \o <<" ","2","0","2","2">>
QueryBoG99 == <<"B","o","G"," ","9","9">>
Querybog60And2021 == <<"b","o","g","6","0"," ","2","0","2","1">>
QueryHello == <<"h","e","l","l","o">>

Queries == {QueryBoG54, QueryBoG54And2022, QueryBoG99, Querybog60And2021, QueryHello}

----------------------------------------------------------------------------
(* TextRAGHandler.handle_input: rag_query_handler.py lines 125-149, with   *)
(* _load_all_vector_stores (20-37), _query_with_context (105-123) and      *)
(* _query_together_ai (39-60)                                              *)

\* the default of the parameter top_k, line 125
DefaultTopK == 200

NoContextMessage == "No relevant context found in the specified folders."
NoResponseMessage == "[Error] No response from Together AI."

\* what requests.post(...).json()[...] gives, or the text built from the
\* exception caught at line 59
CompletionOutcomes == {"answer", "", "System error: timeout"}

\* the registries _load_all_vector_stores can build from the directory: the
\* sub-folders in listing order, those whose load raises left out
LoadResults(dir) ==
    UNION { { [i \in DOMAIN l |-> [key |-> l[i], db |-> dir[l[i]]]] :
                l \in ListsOf(loaded) } : loaded \in SUBSET DOMAIN dir }

\* as_retriever(search_kwargs={"k": top_k}).get_relevant_documents(query),
\* line 136: the k best documents of the store, best first (a store holds its
\* documents in the order of their similarity to the query)
GetRelevantDocuments(db, k) == SubSeq(db, 1, IF Len(db) < k THEN Len(db) ELSE k)

\* the loop of lines 138-142 over docs[i..]: the documents kept and the
\* texts seen
RECURSIVE Deduplicate(_, _, _, _)
Deduplicate(docs, i, kept, seen_texts) ==
    IF i > Len(docs) THEN [all_docs |-> kept, seen |-> seen_texts]
    ELSE IF docs[i].page_content \notin seen_texts
    THEN Deduplicate(docs, i + 1, Append(kept, docs[i]),
                     seen_texts \cup {docs[i].page_content})
    ELSE Deduplicate(docs, i + 1, kept, seen_texts)

\* line 126, on entry: the registry is rebuilt from the directory
Reload ==
    /\ qpc = "idle"
    /\ \E q \in Queries, k \in {1, DefaultTopK} :
          /\ query' = q
          /\ top_k' = k
    /\ vector_stores' \in LoadResults(vector_store_dir)
    /\ store_keys' = <<>>
    /\ key_index' = 1
    /\ all_docs' = <<>>
    /\ seen' = {}
    /\ combined_context' = <<>>
    /\ response' = "none"
    /\ trace' = <<"reload">>
    /\ qpc' = "select"
    /\ UNCHANGED <<vector_store_dir, notHandler>>

\* lines 127-133: the selection, its ValueError returned as text
Select ==
    /\ qpc = "select"
    /\ LET r == extract_bog_folders_from_query(query, Keys(vector_stores))
       IN  IF r.raised # "none"
           THEN /\ response' = r.raised
                /\ qpc' = "idle"
                /\ UNCHANGED store_keys
           ELSE /\ store_keys' \in ListsOf(r.detected)
                /\ qpc' = "retrieve"
                /\ UNCHANGED response
    /\ trace' = Append(trace, "select")
    /\ UNCHANGED <<query, top_k, key_index, all_docs, seen, combined_context,
                   vector_stores, vector_store_dir, notHandler>>

\* one iteration of the loop of line 134 with seen emptied for each store
Retrieve_per_store ==
    /\ qpc = "retrieve"
    /\ key_index <= Len(store_keys)
    /\ LET docs == GetRelevantDocuments(
                       Lookup(vector_stores, store_keys[key_index]), top_k)
           r == Deduplicate(docs, 1, all_docs, {})
       IN  /\ all_docs' = r.all_docs
           /\ seen' = r.seen
    /\ key_index' = key_index + 1
    /\ trace' = Append(trace, "retrieve")
    /\ UNCHANGED <<query, top_k, store_keys, combined_context, response, qpc,
                   vector_stores, vector_store_dir, notHandler>>

\* one iteration of the loop of line 134: the store's documents, those whose
\* text was not seen yet appended
Retrieve ==
    /\ qpc = "retrieve"
    /\ key_index <= Len(store_keys)
    /\ LET docs == GetRelevantDocuments(
                       Lookup(vector_stores, store_keys[key_index]), top_k)
           r == Deduplicate(docs, 1, all_docs, seen)
       IN  /\ all_docs' = r.all_docs
           /\ seen' = r.seen
    /\ key_index' = key_index + 1
    /\ trace' = Append(trace, "retrieve")
    /\ UNCHANGED <<query, top_k, store_keys, combined_context, response, qpc,
                   vector_stores, vector_store_dir, notHandler>>

\* lines 144-147 without the test of line 146
Assemble_no_test ==
    /\ qpc = "retrieve"
    /\ key_index > Len(store_keys)
    /\ combined_context' =
           Join([i \in DOMAIN all_docs |-> all_docs[i].page_content], <<"\n", "\n">>)
    /\ qpc' = "synthesize"
    /\ UNCHANGED <<response, query, top_k, store_keys, key_index, all_docs, seen,
                   trace, vector_stores, vector_store_dir, notHandler>>

\* lines 144-147: the context joined, the early return when it is blank
Assemble ==
    /\ qpc = "retrieve"
    /\ key_index > Len(store_keys)
    /\ combined_context' =
           Join([i \in DOMAIN all_docs |-> all_docs[i].page_content], <<"\n", "\n">>)
    /\ IF Strip(combined_context') = <<>>
       THEN /\ response' = NoContextMessage
            /\ qpc' = "idle"
       ELSE /\ qpc' = "synthesize"
            /\ UNCHANGED response
    /\ UNCHANGED <<query, top_k, store_keys, key_index, all_docs, seen, trace,
                   vector_stores, vector_store_dir, notHandler>>

\* line 149: the request to the completion API and what comes of it
Synthesize ==
    /\ qpc = "synthesize"
    /\ \E outcome \in CompletionOutcomes :
          response' = IF outcome = "" THEN NoResponseMessage ELSE outcome
    /\ trace' = Append(trace, "network")
    /\ qpc' = "idle"
    /\ UNCHANGED <<query, top_k, store_keys, key_index, all_docs, seen,
                   combined_context, vector_stores, vector_store_dir, notHandler>>

----------------------------------------------------------------------------
(* SpecHandle: questions handled one after the other over a directory of   *)
(* at most two partitions of at most MaxStoreDocs documents                *)

MaxStoreDocs == 2

\* the registry of a handler that has been constructed over the directory
InitHandler ==
    /\ vector_stores \in LoadResults(vector_store_dir)
    /\ query = <<>>
    /\ top_k = 0
    /\ store_keys = <<>>
    /\ key_index = 1
    /\ all_docs = <<>>
    /\ seen = {}
    /\ combined_context = <<>>
    /\ response = "none"
    /\ trace = <<>>
    /\ data_folder = <<>>
    /\ files = <<>>
    /\ file_index = 1
    /\ all_chunks = <<>>
    /\ ipc = "idle"
    /\ index_log = <<>>
    /\ CleanIdle
    /\ ChunkIdle

\* the documents of a partition named name with the texts given
StoreOf(name, texts) ==
    [i \in DOMAIN texts |-> [page_content |-> texts[i], source |-> name]]

StoreTexts ==
    SeqsUpTo({<<"a">>, <<"b">>}, MaxStoreDocs) \cup { << <<" ">> >> }

HandleDirectories ==
    UNION { [names -> StoreTexts] : names \in SUBSET {BoG54_2021, BoG60_2022} }

InitHandle ==
    /\ \E d \in HandleDirectories :
          vector_store_dir = [n \in DOMAIN d |-> StoreOf(n, d[n])]
    /\ qpc = "idle"
    /\ InitHandler

NextHandle == Reload \/ Select \/ Retrieve \/ Assemble \/ Synthesize

SpecHandle == InitHandle /\ [][NextHandle]_vars

----------------------------------------------------------------------------
(* SpecSelect: the selection applied to the queries made of at most        *)
(* MaxQueryLexemes pieces, over every registry of the partition names      *)

MaxQueryLexemes == 3

\* "BoG 54", " 2022", "BoG 99", " bog60", " 2021", "x", "4", "_"
QueryLexemes ==
    { QueryBoG54,
      <<" ","2","0","2","2">>,
      QueryBoG99,
      <<" ","b","o","g","6","0">>,
      <<" ","2","0","2","1">>,
      <<"x">>, <<"4">>, <<"_">> }

SelectQueries == { Concat(ls) : ls \in SeqsUpTo(QueryLexemes, MaxQueryLexemes) }

PartitionNames == {BoG54_2021, BoG60_2022, COMBINED_INDEX_NAME}

InitSelect ==
    /\ vector_store_dir = [n \in PartitionNames |-> <<>>]
    /\ query \in SelectQueries
    /\ top_k = DefaultTopK
    /\ trace = <<"reload">>
    /\ qpc = "select"
    /\ vector_stores \in LoadResults(vector_store_dir)
    /\ store_keys = <<>>
    /\ key_index = 1
    /\ all_docs = <<>>
    /\ seen = {}
    /\ combined_context = <<>>
    /\ response = "none"
    /\ data_folder = <<>>
    /\ files = <<>>
    /\ file_index = 1
    /\ all_chunks = <<>>
    /\ ipc = "idle"
    /\ index_log = <<>>
    /\ CleanIdle
    /\ ChunkIdle

NextSelect == Select

SpecSelect == InitSelect /\ [][NextSelect]_vars

----------------------------------------------------------------------------
(* Properties of the selection                                             *)

\* the partitions of the registry whose code is a code mentioned in the
\* query or whose year is a year mentioned in it
MatchedPartitions ==
    { f \in Range(Keys(vector_stores)) :
         \/ \E m \in Range(BogMentions(query)) : FolderBog(f) = m
         \/ \E y \in Range(YearMentions(query)) : FolderYear(f) = y }

\* the selection of the current call has run
Selected == Len(trace) >= 2 /\ trace[2] = "select"

\* C1: a selection that succeeds returns, without duplicates, exactly the
\* registry's partitions that match a code or a year mentioned in the query;
\* over {BoG54_2021, BoG60_2022}, "BoG 54" selects {BoG54_2021} and
\* "BoG 54 2022" selects both
C1_SelectsUnionOfMatches ==
    Selected /\ response = "none" =>
        /\ \A i, j \in DOMAIN store_keys : i # j => store_keys[i] # store_keys[j]
        /\ Range(store_keys) = MatchedPartitions
        /\ Range(store_keys) \subseteq Range(Keys(vector_stores))
        /\ Range(Keys(vector_stores)) = {BoG54_2021, BoG60_2022} =>
              /\ query = QueryBoG54 => Range(store_keys) = {BoG54_2021}
              /\ query = QueryBoG54And2022 =>
                    Range(store_keys) = {BoG54_2021, BoG60_2022}

\* the query "BoG 54 2022" has selected both partitions
C1_Witness ==
    /\ Selected
    /\ query = QueryBoG54And2022
    /\ Range(store_keys) = {BoG54_2021, BoG60_2022}
    /\ Len(vector_stores) = 3

\* C2: the selection fails with NoIdentifierFound exactly when the query
\* mentions neither a code nor a year, with NoMatchingPartition exactly when
\* it mentions one and no mentioned identifier matches a partition, and
\* returns a non-empty list in every other case (a mention without partition
\* beside one that matches does not fail)
C2_SelectionOutcome ==
    Selected =>
        LET mentions == BogMentions(query) \o YearMentions(query)
        IN  /\ response = NoIdentifierMessage <=> mentions = <<>>
            /\ response = NoMatchingMessage <=>
                  mentions # <<>> /\ MatchedPartitions = {}
            /\ response \notin {NoIdentifierMessage, NoMatchingMessage} =>
                  store_keys # <<>>
            /\ response \in {NoIdentifierMessage, NoMatchingMessage} =>
                  store_keys = <<>> /\ qpc = "idle"

\* "BoG 99 2022": code 99 has no partition, year 2022 has one, and the
\* selection succeeded
C2_Witness ==
    /\ Selected
    /\ query = QueryBoG99 \o <<" ","2","0","2","2">>
    /\ store_keys = <<BoG60_2022>>
    /\ response = "none"

----------------------------------------------------------------------------
(* Properties of handle_input                                              *)

\* what the stores visited so far have returned, in the order visited
Retrieved ==
    Concat([i \in 1..(key_index - 1) |->
               GetRelevantDocuments(Lookup(vector_stores, store_keys[i]), top_k)])

\* the documents of docs whose text no earlier document of docs has
FirstOccurrences(docs) ==
    LET first == SelectSeq([i \in DOMAIN docs |-> i],
                           LAMBDA i : \A j \in 1..(i - 1) :
                                         docs[j].page_content # docs[i].page_content)
    IN  [k \in DOMAIN first |-> docs[first[k]]]

\* handle_input has joined the context of the current call
Assembled ==
    \/ qpc = "synthesize"
    \/ qpc = "idle" /\ Selected /\ store_keys # <<>>

\* C3: the evidence holds each distinct chunk text once, duplicates within a
\* partition and across partitions dropped, in the order of first occurrence
\* (partitions in selector order, a partition's results in rank order), and
\* the context is these texts joined by a blank line
C3_EvidenceDeduplicated ==
    /\ \A i, j \in DOMAIN all_docs :
          i # j => all_docs[i].page_content # all_docs[j].page_content
    /\ all_docs = FirstOccurrences(Retrieved)
    /\ Assembled =>
          combined_context =
              Join([i \in DOMAIN all_docs |-> all_docs[i].page_content],
                   <<"\n", "\n">>)

\* two partitions of two documents each were read and the second one added
\* nothing: both of its texts had been seen in the first
C3_Witness ==
    /\ qpc = "synthesize"
    /\ Len(store_keys) = 2
    /\ Len(Retrieved) = 4
    /\ Len(all_docs) = 2
    /\ \A i \in DOMAIN all_docs : all_docs[i].source = store_keys[1]

\* C4: a call reloads the registry, then selects, then retrieves, then
\* synthesizes; the request to the completion API is made last, only after a
\* successful selection, the retrieval from every selected partition and a
\* non-blank context; a call whose selection failed or that kept no evidence
\* has returned its message without a request
C4_StepsInOrder ==
    /\ \A i \in DOMAIN trace :
          /\ trace[i] = "reload" <=> i = 1
          /\ trace[i] = "select" <=> i = 2
          /\ trace[i] = "network" => i = Len(trace)
    /\ "network" \in Range(trace) =>
          /\ store_keys # <<>>
          /\ Len(trace) = Len(store_keys) + 3
          /\ Strip(combined_context) # <<>>
    /\ qpc = "idle" /\ Selected /\ (store_keys = <<>> \/ all_docs = <<>>) =>
          /\ response \in {NoIdentifierMessage, NoMatchingMessage, NoContextMessage}
          /\ "network" \notin Range(trace)

\* a call that went through every step and got its answer
C4_Witness ==
    /\ qpc = "idle"
    /\ trace = <<"reload", "select", "retrieve", "retrieve", "network">>
    /\ response = "answer"

----------------------------------------------------------------------------
(* SpecClean: clean_text applied to an input, then to its own output       *)

MaxLexemes == 4

\* the pieces raw inputs are made of
Lexemes == { <<"a">>, <<"-">>, <<" ">>, <<"BULLET">>, <<"_">>,
             <<"p","a","g","e">>, <<"1">>, <<"\n">> }

RawTexts == { Concat(ls) : ls \in SeqsUpTo(Lexemes, MaxLexemes) }

InitClean ==
    /\ raw \in RawTexts
    /\ once = <<>>
    /\ twice = <<>>
    /\ cpc = "raw"
    /\ ChunkIdle
    /\ IndexIdle
    /\ HandlerIdle

CleanOnce ==
    /\ cpc = "raw"
    /\ once' = clean_text(raw)
    /\ cpc' = "once"
    /\ UNCHANGED <<raw, twice, notClean>>

CleanTwice ==
    /\ cpc = "once"
    /\ twice' = clean_text(once)
    /\ cpc' = "twice"
    /\ UNCHANGED <<raw, once, notClean>>

NextClean == CleanOnce \/ CleanTwice

SpecClean == InitClean /\ [][NextClean]_vars

\* C7: clean_text is idempotent: clean_text(clean_text(x)) = clean_text(x)
C7_Idempotent == cpc = "twice" => twice = once

====
